---- MODULE Spec2Model ----
(***************************************************************************)
(* SimplePromise (lib/simplePromise): a single-assignment future with      *)
(* then/catch chaining whose continuations are deferred with setTimeout.   *)
(* One model step is one synchronous turn of the host event loop: a piece  *)
(* of user code that constructs a promise, calls then/catch, calls a       *)
(* stored resolve/reject capability, or one timer task run by the host.    *)
(***************************************************************************)
EXTENDS Integers, Sequences, FiniteSets, TLC

\* ---------------------------------------------------------------- bounds
MaxPromises == 3   \* promises ever constructed (roots and then() results)
MaxCalls == 2      \* resolve/reject calls made after construction
MaxExecOps == 1    \* resolve/reject calls an executor makes synchronously
MaxVal == 1        \* numbers 1..MaxVal are used as settlement arguments
MaxChainCalls == 1 \* resolve/reject calls after construction, fair host
MaxElement == 2    \* useQueue: elements are 1..MaxElement
MaxQueueLen == 3   \* useQueue: longest queue
MaxUpdates == 2    \* useQueue: setQueue calls waiting for one render
MaxCallbacks == 2  \* useInterval: callback functions 1..MaxCallbacks
MaxMs == 2         \* useInterval: numeric ms are 1..MaxMs
MaxRenders == 2    \* useInterval: renders of the component
MaxTime == 3       \* useInterval: the clock runs from 0 to MaxTime
MaxObjectUpdates == 2 \* useObjectState: updaters waiting for one render
MaxConsumers == 3  \* useScript: components that use the same src
MaxFns == 2        \* debounce: wrapped functions 1..MaxFns
MaxDelay == 2      \* debounce: delays 1..MaxDelay
MaxArgs == 2       \* debounce: arguments 1..MaxArgs
MaxDebounceCalls == 3 \* debounce: calls of the debounced function
MaxDebounceTime == 4  \* debounce: the clock runs from 0 to MaxDebounceTime
MaxRequests == 3   \* createSimpleRequest: handler calls on the instance
MaxRequestTime == 3 \* createSimpleRequest: readings 1..MaxRequestTime of performance.now()

\* ------------------------------------------------------------ JS values
Undefined == <<"undefined">>
NaN == <<"nan">>
Num(n) == <<"num", n>>
Values == {Undefined} \cup {Num(n) : n \in 1..MaxVal}

\* v + 1 as JavaScript computes it
Plus1(v) == IF v[1] = "num" THEN Num(v[2] + 1) ELSE NaN

\* what a caller may pass as onFulfilled / onRejected
HandlerArgs == {"undefined", "null", "inc", "throw"}

\* typeof x === 'function'
IsFunction(x) == x \in {"identity", "inc", "throw"}

\* calling a continuation: identity is the default (value) => value,
\* inc is v => v + 1, throw is v => { throw v }
CallHandler(fn, v) ==
  CASE fn = "inc" -> [threw |-> FALSE, val |-> Plus1(v)]
    [] fn = "throw" -> [threw |-> TRUE, val |-> v]
    [] OTHER -> [threw |-> FALSE, val |-> v]

\* ---------------------------------------------------------------- state
VARIABLES
  promises,    \* sequence of SimplePromise objects, index = identity
  timers,      \* host timer queue: setTimeout(.., 0) tasks in FIFO order
  log,         \* observation: continuation invocations, in execution order
  uncaught,    \* observation: exceptions that escaped to the caller
  firstCall,   \* observation: first resolve/reject call made on a promise
  turn,        \* observation: number of the current synchronous turn
  settleTurn,  \* observation: turn in which a promise left 'pending'
  regs,        \* observation: the then()/catch() call that made a promise
  execs,       \* observation: the executor script of a root promise
  calls,       \* number of resolve/reject calls made after construction
  lastOp,      \* observation: the operation of the last turn
  toInput,     \* to(): the promise handed to to()
  toExt,       \* to(): the errorExt argument, undefined when not supplied
  toCalled,    \* to(): whether to() has been called
  toThen,      \* to(): the promise promise.then(..) returned
  toResult,    \* to(): the promise to() returned, .then(..).catch(..)
  qMounted,    \* useQueue: whether the component is mounted
  qState,      \* useQueue: the queue of the last render
  qUpdates,    \* useQueue: setQueue updates React has queued for the next render
  qFresh,      \* useQueue: no setQueue call was made since mount
  qLast,       \* useQueue, observation: the last call, what it returned and
               \* the queue it was made on
  ivMounted,   \* useInterval: whether the component is mounted
  ivProps,     \* useInterval: callback, ms, options.immediate of the last render
  ivPending,   \* useInterval: the last render's effects have not run yet
  ivDeps,      \* useInterval: dependencies the effects last ran with
  ivCallbackRef, \* useInterval: callbackRef.current
  ivIntervalRef, \* useInterval: intervalRef.current, 0 for null
  ivTimers,    \* host: the active setInterval timers
  ivNow,       \* host: the clock
  ivRenders,   \* number of renders so far
  ivLog,       \* observation: the callback invocations, in order
  ivStarts,    \* observation: every setInterval call, index = timer id
  ivCleared,   \* observation: the returned function was called since
               \* ms / options.immediate last changed
  oMounted,    \* useObjectState: whether the component is mounted
  oState,      \* useObjectState: the state of the last render
  oUpdates,    \* useObjectState: updaters React has queued for the next render
  oLast,       \* useObjectState, observation: the last setter call and the
               \* state it was made on
  sComponents, \* useScript: the components that call useScript(src)
  sElements,   \* useScript: the script elements created for src, in order
  dbKind,      \* debounce: "none", "debounce" or "useDebounce"
  dbFn,        \* debounce: the wrapped function of the current closure
  dbDelay,     \* debounce: the delay of the current closure
  dbTimer,     \* debounce: timer / timer.current, 0 for null
  dbTimers,    \* host: the pending setTimeout timers
  dbNow,       \* host: the clock
  dbCalls,     \* observation: the calls of the debounced function, in order
  dbLog,       \* observation: the invocations of the wrapped function
  rqLatest,    \* createSimpleRequest: latestRequestId
  rqRequests,  \* createSimpleRequest: the handler calls, in order of start
  rqNow,       \* host: the value performance.now() returns
  rqLog        \* observation: the onSuccess / onError invocations

toVars == <<toInput, toExt, toCalled, toThen, toResult>>

queueVars == <<qMounted, qState, qUpdates, qFresh, qLast>>

intervalVars == <<ivMounted, ivProps, ivPending, ivDeps, ivCallbackRef,
                  ivIntervalRef, ivTimers, ivNow, ivRenders, ivLog, ivStarts,
                  ivCleared>>

objectVars == <<oMounted, oState, oUpdates, oLast>>

scriptVars == <<sComponents, sElements>>

debounceVars == <<dbKind, dbFn, dbDelay, dbTimer, dbTimers, dbNow, dbCalls,
                  dbLog>>

requestVars == <<rqLatest, rqRequests, rqNow, rqLog>>

hookVars == <<queueVars, intervalVars, objectVars, scriptVars, debounceVars,
              requestVars>>

vars == <<promises, timers, log, uncaught, firstCall, turn, settleTurn,
          regs, execs, calls, lastOp, toVars, hookVars>>

NoCall == [kind |-> "none", arg |-> Undefined]
NoReg == [source |-> 0, onFulfilled |-> "undefined", onRejected |-> "undefined",
          turn |-> 0, wasPending |-> FALSE, via |-> "none"]
NoExec == [type |-> "none"]

Ids == 1..Len(promises)

\* constructor, lines 7-12
NewPromise ==
  [state |-> "pending", value |-> Undefined, reason |-> Undefined,
   onFulfilledCallbacks |-> <<>>, onRejectedCallbacks |-> <<>>]

\* The heap a synchronous piece of code works on.
Heap ==
  [promises |-> promises, timers |-> timers, log |-> log,
   uncaught |-> uncaught, firstCall |-> firstCall, turn |-> turn + 1]

\* setTimeout(task, 0): the task is appended to the host's timer queue
SetTimeout(h, task) == [h EXCEPT !.timers = Append(@, task)]

\* a queued callback (value) => { setTimeout(() => handleX(value), 0) }
RunCallback(h, cb, v) ==
  SetTimeout(h, [fn |-> cb.fn, handler |-> cb.handler, target |-> cb.target,
                 src |-> 0, arg |-> v])

\* Array.prototype.forEach over a callback array, lines 29 and 42
RECURSIVE ForEach(_, _, _)

\* ---------------------------------------------------------------- mutant of the forEach drain
RECURSIVE ForEachReverse(_, _, _)
ForEachReverse(h, cbs, v) ==
  IF cbs = <<>> THEN h
  ELSE RunCallback(ForEachReverse(h, Tail(cbs), v), Head(cbs), v)

ForEach(h, cbs, v) ==
  IF cbs = <<>> THEN h
  ELSE ForEach(RunCallback(h, Head(cbs), v), Tail(cbs), v)

\* ---------------------------------------------------------------- mutants of resolve / reject
ResolveNoGuard(h, p, value) ==
  LET h1 == [h EXCEPT !.promises[p].state = "fulfilled",
                      !.promises[p].value = value]
  IN ForEach(h1, h1.promises[p].onFulfilledCallbacks, h1.promises[p].value)

RejectSetsValue(h, p, reason) ==
  IF h.promises[p].state = "pending"
  THEN LET h1 == [h EXCEPT !.promises[p].state = "rejected",
                           !.promises[p].value = reason,
                           !.promises[p].reason = reason]
       IN ForEach(h1, h1.promises[p].onRejectedCallbacks, h1.promises[p].reason)
  ELSE h

ResolveDrainsBoth(h, p, value) ==
  IF h.promises[p].state = "pending"
  THEN LET h1 == [h EXCEPT !.promises[p].state = "fulfilled",
                           !.promises[p].value = value]
           h2 == ForEach(h1, h1.promises[p].onFulfilledCallbacks,
                         h1.promises[p].value)
       IN ForEach(h2, h2.promises[p].onRejectedCallbacks, h2.promises[p].value)
  ELSE h

\* resolve(value), lines 23-33
Resolve(h, p, value) ==
  IF h.promises[p].state = "pending"
  THEN LET h1 == [h EXCEPT !.promises[p].state = "fulfilled",
                           !.promises[p].value = value]
       IN ForEach(h1, h1.promises[p].onFulfilledCallbacks, h1.promises[p].value)
  ELSE h

RejectNoGuard(h, p, reason) ==
  LET h1 == [h EXCEPT !.promises[p].state = "rejected",
                      !.promises[p].reason = reason]
  IN ForEach(h1, h1.promises[p].onRejectedCallbacks, h1.promises[p].reason)

\* reject(reason), lines 36-46
Reject(h, p, reason) ==
  IF h.promises[p].state = "pending"
  THEN LET h1 == [h EXCEPT !.promises[p].state = "rejected",
                           !.promises[p].reason = reason]
       IN ForEach(h1, h1.promises[p].onRejectedCallbacks, h1.promises[p].reason)
  ELSE h

\* observation of a call of a capability: the first call on p is remembered
NoteCall(h, p, kind, arg) ==
  IF h.firstCall[p].kind = "none"
  THEN [h EXCEPT !.firstCall[p] = [kind |-> kind, arg |-> arg]]
  ELSE h

\* the capabilities this.resolve.bind(this) / this.reject.bind(this), line 16
CallResolve(h, p, value) == Resolve(NoteCall(h, p, "resolve", value), p, value)
CallReject(h, p, reason) == Reject(NoteCall(h, p, "reject", reason), p, reason)

\* the argument a timer task passes: the captured value, or this.value /
\* this.reason read when the task runs (lines 82, 84)
TaskArg(h, task) ==
  IF task.src = 0 THEN task.arg
  ELSE IF task.fn = "handleFulfilled" THEN h.promises[task.src].value
       ELSE h.promises[task.src].reason

\* observation of a continuation being invoked and of how it ended
NoteRun(h, target, fn, arg, r) ==
  [h EXCEPT !.log = Append(@, [target |-> target, fn |-> fn, arg |-> arg,
                               threw |-> r.threw, val |-> r.val,
                               turn |-> h.turn])]

\* ---------------------------------------------------------------- mutant of handleFulfilled
HandleFulfilledSwallows(h, onFulfilled, target, value) ==
  LET r == CallHandler(onFulfilled, value)
      h1 == NoteRun(h, target, "handleFulfilled", value, r)
  IN CallResolve(h1, target, r.val)

\* handleFulfilled, lines 62-69 (resolve / reject are those of the new promise)
HandleFulfilled(h, onFulfilled, target, value) ==
  LET r == CallHandler(onFulfilled, value)
      h1 == NoteRun(h, target, "handleFulfilled", value, r)
  IN IF r.threw THEN CallReject(h1, target, r.val)
     ELSE CallResolve(h1, target, r.val)

\* ---------------------------------------------------------------- mutant of handleRejected
HandleRejectedNoCatch(h, onRejected, target, reason) ==
  LET r == CallHandler(onRejected, reason)
      h1 == NoteRun(h, target, "handleRejected", reason, r)
  IN IF r.threw THEN [h1 EXCEPT !.uncaught = @ \cup {r.val}]
     ELSE CallResolve(h1, target, r.val)

\* handleRejected, lines 72-79
HandleRejected(h, onRejected, target, reason) ==
  LET r == CallHandler(onRejected, reason)
      h1 == NoteRun(h, target, "handleRejected", reason, r)
  IN IF r.threw THEN CallReject(h1, target, r.val)
     ELSE CallResolve(h1, target, r.val)

\* a timer task () => handleFulfilled(..) / () => handleRejected(..)
RunTask(h, task) ==
  IF task.fn = "handleFulfilled"
  THEN HandleFulfilled(h, task.handler, task.target, TaskArg(h, task))
  ELSE HandleRejected(h, task.handler, task.target, TaskArg(h, task))

\* ---------------------------------------------------------------- mutant of the pending branch
PushCallbacksFulfilledOnly(h, d, exec) ==
  [h EXCEPT
     !.promises[exec.this].onFulfilledCallbacks =
        Append(@, [fn |-> "handleFulfilled", handler |-> exec.onFulfilled,
                   target |-> d])]

\* the two closures then() pushes while the source is pending, lines 87-92
PushCallbacks(h, d, exec) ==
  [h EXCEPT
     !.promises[exec.this].onFulfilledCallbacks =
        Append(@, [fn |-> "handleFulfilled", handler |-> exec.onFulfilled,
                   target |-> d]),
     !.promises[exec.this].onRejectedCallbacks =
        Append(@, [fn |-> "handleRejected", handler |-> exec.onRejected,
                   target |-> d])]

FulfilledTask(d, exec) ==
  [fn |-> "handleFulfilled", handler |-> exec.onFulfilled, target |-> d,
   src |-> exec.this, arg |-> Undefined]

RejectedTask(d, exec) ==
  [fn |-> "handleRejected", handler |-> exec.onRejected, target |-> d,
   src |-> exec.this, arg |-> Undefined]

\* ---------------------------------------------------------------- mutants of the executor of then()
ThenExecutorSync(h, d, exec) ==
  IF h.promises[exec.this].state = "fulfilled"
  THEN RunTask(h, FulfilledTask(d, exec))
  ELSE IF h.promises[exec.this].state = "rejected"
  THEN RunTask(h, RejectedTask(d, exec))
  ELSE PushCallbacks(h, d, exec)

ThenExecutorWrongBranch(h, d, exec) ==
  IF h.promises[exec.this].state = "fulfilled"
  THEN SetTimeout(h, FulfilledTask(d, exec))
  ELSE IF h.promises[exec.this].state = "rejected"
  THEN SetTimeout(h, FulfilledTask(d, exec))
  ELSE PushCallbacks(h, d, exec)

ThenExecutorAlwaysQueues(h, d, exec) ==
  IF h.promises[exec.this].state = "fulfilled"
  THEN PushCallbacks(SetTimeout(h, FulfilledTask(d, exec)), d, exec)
  ELSE IF h.promises[exec.this].state = "rejected"
  THEN PushCallbacks(SetTimeout(h, RejectedTask(d, exec)), d, exec)
  ELSE PushCallbacks(h, d, exec)

\* the executor then() hands to the new promise, lines 60-94
ThenExecutor(h, d, exec) ==
  IF h.promises[exec.this].state = "fulfilled"
  THEN SetTimeout(h, FulfilledTask(d, exec))
  ELSE IF h.promises[exec.this].state = "rejected"
  THEN SetTimeout(h, RejectedTask(d, exec))
  ELSE PushCallbacks(h, d, exec)

\* a user executor: some resolve/reject calls, in order
RECURSIVE RunScript(_, _, _)
RunScript(h, p, ops) ==
  IF ops = <<>> THEN h
  ELSE LET op == Head(ops)
           h1 == IF op.kind = "resolve" THEN CallResolve(h, p, op.arg)
                 ELSE CallReject(h, p, op.arg)
       IN RunScript(h1, p, Tail(ops))

\* executor?.(resolve, reject), line 16: the heap it leaves and what it threw
RunExecutor(h, p, exec) ==
  IF exec.type = "then"
  THEN [h |-> ThenExecutor(h, p, exec), threw |-> FALSE, val |-> Undefined]
  ELSE [h |-> RunScript(h, p, exec.ops), threw |-> exec.threw,
        val |-> exec.val]

\* this.state = 'pending' ... this.onRejectedCallbacks = [], lines 7-12
Alloc(h) ==
  [h EXCEPT !.promises = Append(@, NewPromise),
            !.firstCall = Append(@, NoCall)]

\* ---------------------------------------------------------------- mutant of the constructor
ConstructorNoCatch(h, exec) ==
  LET p == Len(h.promises) + 1
      r == RunExecutor(Alloc(h), p, exec)
  IN IF r.threw THEN [r.h EXCEPT !.uncaught = @ \cup {r.val}] ELSE r.h

\* constructor(executor), lines 6-20
Constructor(h, exec) ==
  LET p == Len(h.promises) + 1
      r == RunExecutor(Alloc(h), p, exec)
  IN IF r.threw THEN CallReject(r.h, p, r.val) ELSE r.h

\* then(onFulfilled, onRejected), lines 56-95
Then(h, this, onFulfilledArg, onRejectedArg) ==
  LET f0 == IF onFulfilledArg = "undefined" THEN "identity" ELSE onFulfilledArg
      r0 == IF onRejectedArg = "undefined" THEN "identity" ELSE onRejectedArg
      onFulfilled == IF IsFunction(f0) THEN f0 ELSE "identity"
      onRejected == IF IsFunction(r0) THEN r0 ELSE "identity"
  IN Constructor(h, [type |-> "then", this |-> this,
                     onFulfilled |-> onFulfilled, onRejected |-> onRejected])

\* catch(onRejected), lines 102-104
Catch(h, this, onRejectedArg) == Then(h, this, "null", onRejectedArg)

\* ---------------------------------------------------------------- inputs
SettleOps == [kind : {"resolve", "reject"}, arg : Values]

\* executors: up to MaxExecOps resolve/reject calls, then return or throw
ExecScripts ==
  {[type |-> "script", ops |-> o, threw |-> FALSE, val |-> Undefined] :
     o \in UNION {[1..k -> SettleOps] : k \in 0..MaxExecOps}}
  \cup
  {[type |-> "script", ops |-> o, threw |-> TRUE, val |-> v] :
     o \in UNION {[1..k -> SettleOps] : k \in 0..MaxExecOps}, v \in Values}

\* ================================================================ to()
\* lib/to: JavaScript values, tagged with what typeof / instanceof tell
JsUndefined == [t |-> "undefined"]
JsNull == [t |-> "null"]
JsString(s) == [t |-> "string", s |-> s]
JsNumber(n) == [t |-> "number", n |-> n]
JsBoolean(b) == [t |-> "boolean", b |-> b]
JsSymbol(d) == [t |-> "symbol", d |-> d]
JsFunction(name, text) == [t |-> "function", name |-> name, text |-> text]
JsObject(fields) == [t |-> "object", fields |-> fields]
JsArray(elems) == [t |-> "array", elems |-> elems]
\* an Error instance: message, name and stack are not enumerable, own holds
\* the enumerable fields a subclass or a caller added
JsError(message, name, stack, own) ==
  [t |-> "error", message |-> message, name |-> name, stack |-> stack,
   own |-> own]

NoFields == [k \in {} |-> JsNull]

\* new Error(message)
NewError(message) ==
  JsError(JsString(message), JsString("Error"),
          JsString("Error: " \o message), NoFields)

\* the own enumerable fields an object spread { ...value } copies
OwnFields(value) ==
  CASE value.t = "object" -> value.fields
    [] value.t = "array" ->
         [k \in {ToString(i - 1) : i \in 1..Len(value.elems)} |->
            LET i == CHOOSE j \in 1..Len(value.elems) : ToString(j - 1) = k
            IN value.elems[i]]
    [] value.t = "error" -> value.own
    [] OTHER -> NoFields

\* { ...a, ...b }
Spread(a, b) == b @@ a

\* String(value) and template interpolation of a value
StringOf(value) ==
  CASE value.t = "string" -> value.s
    [] value.t = "number" -> ToString(value.n)
    [] value.t = "boolean" -> IF value.b THEN "true" ELSE "false"
    [] value.t = "symbol" -> ("Symbol(" \o value.d) \o ")"
    [] value.t = "undefined" -> "undefined"
    [] value.t = "null" -> "null"
    [] OTHER -> "[object Object]"

\* errorStrategies, lines 39-59
StrategyString(value) == JsObject("message" :> value)

StrategyNumberNoPrefix(value) ==
  JsObject(("code" :> value) @@ ("message" :> JsString(StringOf(value))))

StrategyNumber(value) ==
  JsObject(("code" :> value)
           @@ ("message" :> JsString("Error " \o StringOf(value))))

StrategyBoolean(value) ==
  JsObject(("success" :> value)
           @@ ("message" :> JsString(IF value.b THEN "Success" ELSE "Failure")))

StrategyFunction(value) ==
  JsObject(("message" :> JsString("Function error"))
           @@ ("functionName" :> JsString(value.name))
           @@ ("functionString" :> JsString(value.text)))

StrategyObjectMessageLast(value) ==
  JsObject(Spread(OwnFields(value), "message" :> JsString("Object error")))

StrategyObject(value) ==
  JsObject(Spread("message" :> JsString("Object error"), OwnFields(value)))

StrategyDefault(value) ==
  JsObject(("message" :> JsString(StringOf(value)))
           @@ ("originalValue" :> value))

\* typeGuards, lines 61-71
IsEmptyFalsy(value) ==
  \/ value.t \in {"undefined", "null"}
  \/ value = JsString("")
  \/ value = JsNumber(0)
  \/ value = JsBoolean(FALSE)

IsEmpty(value) == value.t = "undefined" \/ value.t = "null" \/ value = JsString("")
IsError(value) == value.t = "error"
IsObject(value) == value.t \in {"object", "array", "error"}
IsString(value) == value.t = "string"
IsNumber(value) == value.t = "number"
IsBoolean(value) == value.t = "boolean"
IsFunctionValue(value) == value.t = "function"

\* toErrorObject, lines 75-79
ToErrorObject(error) ==
  JsObject(("message" :> error.message) @@ ("name" :> error.name)
           @@ ("stack" :> error.stack))

\* processError, lines 82-89
ProcessError(value) ==
  IF IsString(value) THEN StrategyString(value)
  ELSE IF IsNumber(value) THEN StrategyNumber(value)
  ELSE IF IsBoolean(value) THEN StrategyBoolean(value)
  ELSE IF IsFunctionValue(value) THEN StrategyFunction(value)
  ELSE IF IsObject(value) THEN StrategyObject(value)
  ELSE StrategyDefault(value)

\* ---------------------------------------------------------------- mutants of standardizeError
\* the earlier variant of lines 165-180: other values pass through
StandardizeErrorPassThrough(err) ==
  IF IsEmpty(err) THEN ToErrorObject(NewError("Empty error"))
  ELSE IF IsError(err) THEN ToErrorObject(err)
  ELSE err

StandardizeErrorNoInstanceof(err) ==
  IF IsEmpty(err) THEN ToErrorObject(NewError("Empty error"))
  ELSE ProcessError(err)

\* standardizeError, lines 74-98
StandardizeError(err) ==
  IF IsEmpty(err) THEN ToErrorObject(NewError("Empty error"))
  ELSE IF IsError(err) THEN ToErrorObject(err)
  ELSE ProcessError(err)

\* ---------------------------------------------------------------- mutant of extendError
ExtendErrorReversed(err, errorExt) ==
  IF errorExt.t # "undefined"
  THEN JsObject(Spread(OwnFields(errorExt), OwnFields(err)))
  ELSE err

\* extendError, lines 105-106
ExtendError(err, errorExt) ==
  IF errorExt.t # "undefined"
  THEN JsObject(Spread(OwnFields(err), OwnFields(errorExt)))
  ELSE err

\* ---------------------------------------------------------------- mutant of the then handler
ThenHandlerSwapped(data) == JsArray(<<data, JsNull>>)

\* (data) => [null, data], line 113
ThenHandler(data) == JsArray(<<JsNull, data>>)

\* (err) => [extendError(standardizeError(err), errorExt), undefined], line 116
CatchHandler(err, errorExt) ==
  JsArray(<<ExtendError(StandardizeError(err), errorExt), JsUndefined>>)

\* a host promise: its state and its value or reason
NoPromise == [state |-> "absent", value |-> JsUndefined]
PendingPromise == [state |-> "pending", value |-> JsUndefined]
IsSettled(p) == p.state \in {"fulfilled", "rejected"}

\* promise.then(ThenHandler), line 113: a rejection is passed on unchanged
ThenReaction(source) ==
  IF source.state = "fulfilled"
  THEN [state |-> "fulfilled", value |-> ThenHandler(source.value)]
  ELSE [state |-> "rejected", value |-> source.value]

\* ---------------------------------------------------------------- mutant of .catch(..)
CatchReactionMissing(source, errorExt) == source

\* .catch(CatchHandler), lines 114-116: a fulfilment is passed on unchanged
CatchReaction(source, errorExt) ==
  IF source.state = "rejected"
  THEN [state |-> "fulfilled", value |-> CatchHandler(source.value, errorExt)]
  ELSE source

ToInit ==
  /\ toInput = PendingPromise
  /\ toExt = JsUndefined
  /\ toCalled = FALSE
  /\ toThen = NoPromise
  /\ toResult = NoPromise

\* ================================================================ useQueue
\* hooks/useQueue: elements are numbers; a call's result is <<x>> for the
\* element x and <<>> for undefined
QueueUndefined == <<>>

\* the updater of add(element), line 17
AddUpdater(element, s) == Append(s, element)

\* s[0] as remove() reads it, line 23
FirstItem(s) == IF s = <<>> THEN QueueUndefined ELSE <<s[1]>>

\* s.slice(1), line 24
Slice1(s) == IF s = <<>> THEN <<>> ELSE Tail(s)

\* the update clear() queues, line 31
ClearUpdate == [kind |-> "clear", element |-> 0]

\* what one queued setQueue update makes of state s
ApplyUpdate(s, u) ==
  CASE u.kind = "add" -> AddUpdater(u.element, s)
    [] u.kind = "remove" -> Slice1(s)
    [] u.kind = "clear" -> <<>>

\* the state a render computes: the queued updates applied in call order
RECURSIVE ApplyUpdates(_, _)
ApplyUpdates(s, us) ==
  IF us = <<>> THEN s ELSE ApplyUpdates(ApplyUpdate(s, Head(us)), Tail(us))

\* whether setQueue runs an updater inside the call: React does when the
\* hook has no update in flight, always right after mount, and never while
\* an earlier update waits for its render
EagerChoices ==
  IF qUpdates # <<>> THEN {FALSE}
  ELSE IF qFresh THEN {TRUE}
  ELSE BOOLEAN

QueueInit ==
  /\ qMounted = FALSE
  /\ qState = <<>>
  /\ qUpdates = <<>>
  /\ qFresh = TRUE
  /\ qLast = [op |-> "none", element |-> 0, ret |-> QueueUndefined,
              before |-> <<>>]

\* ================================================================ useInterval
\* hooks/useInterval: ms is <<>> for null and <<n>> for the number n
MsNull == <<>>
Ms(n) == <<n>>

\* options?.immediate
ImmediateValues == {"undefined", "false", "true"}
Truthy(immediate) == immediate = "true"

NoProps == [callback |-> 0, ms |-> MsNull, immediate |-> "undefined"]

\* the dependency arrays [callback] and [ms, options?.immediate]; ran is
\* FALSE until the effects have run once, cleanup tells whether the last run
\* of the timer effect returned its cleanup function
NoDeps == [ran |-> FALSE, callback |-> 0, ms |-> MsNull,
           immediate |-> "undefined", cleanup |-> FALSE]

\* the interval state the effects, the cleanup and the returned function
\* work on
IntervalState ==
  [callbackRef |-> ivCallbackRef, intervalRef |-> ivIntervalRef,
   timers |-> ivTimers, log |-> ivLog, starts |-> ivStarts]

\* callbackRef.current(), lines 25 and 29
InvokeCallback(st, by, id) ==
  [st EXCEPT !.log = Append(@, [callback |-> st.callbackRef, at |-> ivNow,
                                by |-> by, id |-> id])]

ClearIntervalRefOnly(st) ==
  IF st.intervalRef # 0 THEN [st EXCEPT !.intervalRef = 0] ELSE st

\* clearInterval(intervalRef.current); intervalRef.current = null, guarded
\* by if (intervalRef.current): lines 34-37 and 43-46
ClearIntervalRef(st) ==
  IF st.intervalRef # 0
  THEN [st EXCEPT
          !.timers = {t \in @ : t.id # st.intervalRef},
          !.starts = [i \in DOMAIN @ |->
                        IF i = st.intervalRef /\ @[i].end = -1
                        THEN [@[i] EXCEPT !.end = ivNow] ELSE @[i]],
          !.intervalRef = 0]
  ELSE st

CallbackEffectStale(st, props) == st

\* the effect of lines 14-16
CallbackEffect(st, props) == [st EXCEPT !.callbackRef = props.callback]

\* the body of the effect of lines 19-31, ms not null
StartInterval(st, props) ==
  LET id == Len(st.starts) + 1
      st1 == IF Truthy(props.immediate)
             THEN InvokeCallback(st, "immediate", id) ELSE st
  IN [st1 EXCEPT
        !.intervalRef = id,
        !.timers = @ \cup {[id |-> id, period |-> props.ms[1],
                            next |-> ivNow + props.ms[1]]},
        !.starts = Append(@, [start |-> ivNow, ms |-> props.ms[1],
                              immediate |-> Truthy(props.immediate),
                              end |-> -1])]

TimerEffectImmediateFirst(st, props) ==
  IF props.ms = MsNull
  THEN IF Truthy(props.immediate) THEN InvokeCallback(st, "immediate", 0)
       ELSE st
  ELSE StartInterval(st, props)

\* the effect of lines 19-39
TimerEffect(st, props) ==
  IF props.ms = MsNull THEN st ELSE StartInterval(st, props)

CallbackDepsChanged(deps, props) ==
  ~deps.ran \/ deps.callback # props.callback

TimerDepsChanged(deps, props) ==
  ~deps.ran \/ deps.ms # props.ms \/ deps.immediate # props.immediate

\* React runs the effects of a commit: the cleanups of the effects whose
\* dependencies changed, then their bodies in the order of declaration
RunEffects(st, deps, props) ==
  LET st1 == IF TimerDepsChanged(deps, props) /\ deps.cleanup
             THEN ClearIntervalRef(st) ELSE st
      st2 == IF CallbackDepsChanged(deps, props)
             THEN CallbackEffect(st1, props) ELSE st1
  IN IF TimerDepsChanged(deps, props) THEN TimerEffect(st2, props) ELSE st2

DepsAfter(deps, props) ==
  [ran |-> TRUE, callback |-> props.callback, ms |-> props.ms,
   immediate |-> props.immediate,
   cleanup |-> IF TimerDepsChanged(deps, props) THEN props.ms # MsNull
               ELSE deps.cleanup]

IntervalInit ==
  /\ ivMounted = FALSE
  /\ ivProps = NoProps
  /\ ivPending = FALSE
  /\ ivDeps = NoDeps
  /\ ivCallbackRef = 0
  /\ ivIntervalRef = 0
  /\ ivTimers = {}
  /\ ivNow = 0
  /\ ivRenders = 0
  /\ ivLog = <<>>
  /\ ivStarts = <<>>
  /\ ivCleared = "no"

\* ================================================================ useObjectState
\* hooks/useObjectState: a function handed to the setter, by what it returns
\* when called with the state
ConstantFunction(result) == [t |-> "function", returns |-> result]
IdentityFunction == [t |-> "function", identity |-> TRUE]

\* arg(s), line 14
CallFunction(fn, s) == IF "identity" \in DOMAIN fn THEN s ELSE fn.returns

\* Object.prototype.toString.call(value)
ToStringTag(value) ==
  CASE value.t = "undefined" -> "[object Undefined]"
    [] value.t = "null" -> "[object Null]"
    [] value.t = "string" -> "[object String]"
    [] value.t = "number" -> "[object Number]"
    [] value.t = "boolean" -> "[object Boolean]"
    [] value.t = "symbol" -> "[object Symbol]"
    [] value.t = "function" -> "[object Function]"
    [] value.t = "array" -> "[object Array]"
    [] value.t = "error" -> "[object Error]"
    [] value.t = "object" -> "[object Object]"

\* isObject of useObjectState.ts, lines 35-37
IsObjectTag(value) == ToStringTag(value) = "[object Object]"

\* { ...s, ...x }, lines 16-19 and 25-28
Merge(s, x) == JsObject(Spread(OwnFields(s), OwnFields(x)))

\* the updater of lines 13-21 applied to the state s: without a plain-object
\* result the arrow function returns nothing
FunctionUpdater(fn, s) ==
  LET newState == CallFunction(fn, s)
  IN IF IsObjectTag(newState) THEN Merge(s, newState) ELSE JsUndefined

\* the updater of lines 25-28
ObjectUpdater(arg, s) == Merge(s, arg)

\* the updaters handlerState(arg) hands to setState, lines 11-30
HandlerState(arg) ==
  (IF arg.t = "function" THEN <<[kind |-> "function", arg |-> arg]>> ELSE <<>>)
  \o
  (IF IsObjectTag(arg) /\ arg.t # "null"
   THEN <<[kind |-> "object", arg |-> arg]>> ELSE <<>>)

RunUpdater(u, s) ==
  IF u.kind = "function" THEN FunctionUpdater(u.arg, s)
  ELSE ObjectUpdater(u.arg, s)

\* the state a render computes from the queued updaters
RECURSIVE RunUpdaters(_, _)
RunUpdaters(s, us) ==
  IF us = <<>> THEN s ELSE RunUpdaters(RunUpdater(Head(us), s), Tail(us))

ObjectInit ==
  /\ oMounted = FALSE
  /\ oState = JsUndefined
  /\ oUpdates = <<>>
  /\ oLast = [called |-> FALSE, arg |-> JsUndefined, before |-> JsUndefined]

\* ================================================================ useScript
\* hooks/useScript: one src; a component is 'unmounted', 'rendered' (first
\* render done, effect not yet run), 'mounted' or 'gone'; cleanup is the
\* element its effect's cleanup function removes, 0 for no cleanup
Consumers == 1..MaxConsumers

NoComponent ==
  [phase |-> "unmounted", status |-> "loading", removeOnUnmount |-> FALSE,
   cleanup |-> 0]

\* the document and the components the effect and the handlers work on
ScriptState == [components |-> sComponents, elements |-> sElements]

\* document.querySelector(`script[src="${src}"]`), line 15: 0 for null
QuerySelector(st) ==
  IF \E e \in DOMAIN st.elements : st.elements[e].inDocument
  THEN CHOOSE e \in DOMAIN st.elements : st.elements[e].inDocument
  ELSE 0

\* setStatus(status) of component c; React drops it once c is unmounted
SetStatus(st, c, status) ==
  IF st.components[c].phase = "gone" THEN st
  ELSE [st EXCEPT !.components[c].status = status]

\* removeEventListeners, lines 46-49
RemoveEventListeners(st, e) == [st EXCEPT !.elements[e].listener = 0]

\* handleScriptLoad / handleScriptError of component c, lines 34-44
HandleScriptEvent(st, c, e, status) ==
  RemoveEventListeners(
    SetStatus([st EXCEPT !.elements[e].dataStatus = status], c, status), e)

\* lines 26-63: create the element, append it, listen, return the cleanup
CreateScript(st, c) ==
  LET e == Len(st.elements) + 1
  IN [st EXCEPT
        !.elements = Append(@, [inDocument |-> TRUE, dataStatus |-> "loading",
                                listener |-> c, fired |-> FALSE]),
        !.components[c].cleanup = e]

\* the effect of component c, lines 13-66
ScriptEffect(st, c) ==
  LET script == QuerySelector(st)
  IN IF script # 0 /\ st.elements[script].dataStatus # ""
     THEN SetStatus(st, c, st.elements[script].dataStatus)
     ELSE IF script = 0 THEN CreateScript(st, c)
     ELSE SetStatus(st, c, "unknown")

\* the cleanup function of component c, lines 57-63
ScriptCleanup(st, c) ==
  LET e == st.components[c].cleanup
  IN IF e # 0 /\ st.components[c].removeOnUnmount
     THEN RemoveEventListeners([st EXCEPT !.elements[e].inDocument = FALSE], e)
     ELSE st

ScriptInit ==
  /\ sComponents = [c \in Consumers |-> NoComponent]
  /\ sElements = <<>>

\* ================================================================ debounce
\* hooks/debounce and hooks/useDebounce: timer ids are 1, 2, ..; the closure
\* state the debounced function works on
DebounceState == [timer |-> dbTimer, timers |-> dbTimers]

\* clearTimeout(id)
ClearTimeout(st, id) == [st EXCEPT !.timers = {t \in @ : t.id # id}]

\* setTimeout(() => fn.apply(context, args), delay)
SetDebounceTimer(st, id, args) ==
  [st EXCEPT !.timer = id,
             !.timers = @ \cup {[id |-> id, due |-> dbNow + dbDelay,
                                 fn |-> dbFn, args |-> args]}]

DebouncedNoClear(st, id, args) == SetDebounceTimer(st, id, args)

\* the debounced function, debounce.js lines 11-21, useDebounce.ts
\* lines 16-24
Debounced(st, id, args) ==
  SetDebounceTimer(IF st.timer # 0 THEN ClearTimeout(st, st.timer) ELSE st,
                   id, args)

DebounceInit ==
  /\ dbKind = "none"
  /\ dbFn = 0
  /\ dbDelay = 0
  /\ dbTimer = 0
  /\ dbTimers = {}
  /\ dbNow = 0
  /\ dbCalls = <<>>
  /\ dbLog = <<>>

\* ================================================================ createSimpleRequest
\* the closure state of one instance and what its calls did
RequestState ==
  [latestRequestId |-> rqLatest, requests |-> rqRequests, log |-> rqLog]

\* handler(fn, onSuccess, onError) up to the await, lines 22-26
Handler(st, now) ==
  [st EXCEPT !.latestRequestId = now,
             !.requests = Append(@, [requestId |-> now, state |-> "inflight",
                                     destroyed |-> FALSE])]

\* the continuation of handler call r after fn() fulfilled ('success') or
\* rejected ('error'), lines 27-34
Continue(st, r, outcome) ==
  LET st1 == [st EXCEPT !.requests[r].state = "done"]
  IN IF st.requests[r].requestId = st.latestRequestId
     THEN [st1 EXCEPT !.log = Append(@, [request |-> r, callback |-> outcome,
                                         latest |-> Len(st.requests)])]
     ELSE st1

\* handler.destroy(), lines 36-38
Destroy(st) ==
  [st EXCEPT !.latestRequestId = 0,
             !.requests = [r \in DOMAIN @ |->
                             IF @[r].state = "inflight"
                             THEN [@[r] EXCEPT !.destroyed = TRUE]
                             ELSE @[r]]]

RequestInit ==
  /\ rqLatest = 0
  /\ rqRequests = <<>>
  /\ rqNow = 1
  /\ rqLog = <<>>

\* ---------------------------------------------------------------- steps
Init ==
  /\ promises = <<>>
  /\ timers = <<>>
  /\ log = <<>>
  /\ uncaught = {}
  /\ firstCall = <<>>
  /\ turn = 0
  /\ settleTurn = <<>>
  /\ regs = <<>>
  /\ execs = <<>>
  /\ calls = 0
  /\ lastOp = [op |-> "init", target |-> 0]
  /\ ToInit
  /\ QueueInit
  /\ IntervalInit
  /\ ObjectInit
  /\ ScriptInit
  /\ DebounceInit
  /\ RequestInit

\* the heap after a turn becomes the state; a promise that left 'pending'
\* in this turn gets the turn's number
Commit(h, op) ==
  /\ promises' = h.promises
  /\ timers' = h.timers
  /\ log' = h.log
  /\ uncaught' = h.uncaught
  /\ firstCall' = h.firstCall
  /\ turn' = h.turn
  /\ settleTurn' =
       [p \in 1..Len(h.promises) |->
          IF p \in Ids /\ settleTurn[p] # 0 THEN settleTurn[p]
          ELSE IF h.promises[p].state # "pending" THEN h.turn ELSE 0]
  /\ lastOp' = op
  /\ UNCHANGED <<toVars, hookVars>>

\* user code: new SimplePromise(executor); the model follows one root promise
\* and every promise derived from it (promises share no state)
New(exec) ==
  /\ promises = <<>>
  /\ Commit(Constructor(Heap, exec), [op |-> "new", target |-> 0])
  /\ regs' = Append(regs, NoReg)
  /\ execs' = Append(execs, exec)
  /\ UNCHANGED calls

\* user code: p.then(f, r)
ThenCall(p, f, r) ==
  /\ Len(promises) < MaxPromises
  /\ Commit(Then(Heap, p, f, r), [op |-> "then", target |-> p])
  /\ regs' = Append(regs, [source |-> p, onFulfilled |-> f, onRejected |-> r,
                           turn |-> turn + 1,
                           wasPending |-> promises[p].state = "pending",
                           via |-> "then"])
  /\ execs' = Append(execs, NoExec)
  /\ UNCHANGED calls

\* user code: p.catch(r)
CatchCall(p, r) ==
  /\ Len(promises) < MaxPromises
  /\ Commit(Catch(Heap, p, r), [op |-> "catch", target |-> p])
  /\ regs' = Append(regs, [source |-> p, onFulfilled |-> "null",
                           onRejected |-> r, turn |-> turn + 1,
                           wasPending |-> promises[p].state = "pending",
                           via |-> "catch"])
  /\ execs' = Append(execs, NoExec)
  /\ UNCHANGED calls

\* user code calls, in a later turn, the resolve capability its executor kept
ResolveCall(p, v) ==
  /\ calls < MaxCalls
  /\ regs[p].source = 0
  /\ Commit(CallResolve(Heap, p, v), [op |-> "resolve", target |-> p])
  /\ calls' = calls + 1
  /\ UNCHANGED <<regs, execs>>

\* user code calls, in a later turn, the reject capability its executor kept
RejectCall(p, v) ==
  /\ calls < MaxCalls
  /\ regs[p].source = 0
  /\ Commit(CallReject(Heap, p, v), [op |-> "reject", target |-> p])
  /\ calls' = calls + 1
  /\ UNCHANGED <<regs, execs>>

\* the host runs the oldest timer task
Tick ==
  /\ timers # <<>>
  /\ Commit(RunTask([Heap EXCEPT !.timers = Tail(@)], Head(timers)),
            [op |-> "tick", target |-> Head(timers).target])
  /\ UNCHANGED <<regs, execs, calls>>

Next ==
  \/ \E exec \in ExecScripts : New(exec)
  \/ \E p \in Ids, f \in HandlerArgs, r \in HandlerArgs : ThenCall(p, f, r)
  \/ \E p \in Ids, r \in HandlerArgs : CatchCall(p, r)
  \/ \E p \in Ids, v \in Values : ResolveCall(p, v)
  \/ \E p \in Ids, v \in Values : RejectCall(p, v)
  \/ Tick

Spec == Init /\ [][Next]_vars

\* ---------------------------------------------------------------- to(): inputs and steps
promiseVars == <<promises, timers, log, uncaught, firstCall, turn, settleTurn,
                 regs, execs, calls, lastOp>>

\* what a step of to() leaves alone
toFrame == <<promiseVars, hookVars>>

\* values an input promise fulfils with (to.test.ts lines 17-21, 61-93)
ToFulfilments ==
  {JsString("test"), JsNull, JsUndefined, JsString(""), JsObject(NoFields),
   JsNumber(0),
   JsObject(("status" :> JsNumber(200)) @@ ("data" :> JsString("ok")))}

\* values an input promise rejects with (to.test.ts lines 22-75 and the
\* 'Error Standardization' examples)
ToRejections ==
  {JsUndefined, JsNull, JsString(""), JsString("Error"),
   JsNumber(0), JsNumber(404), JsBoolean(TRUE), JsBoolean(FALSE),
   JsFunction("", "() => {}"), JsFunction("fail", "function fail() {}"),
   JsSymbol("boom"),
   JsError(JsString("X"), JsString("Error"), JsString("Error: X"), NoFields),
   JsError(JsString("Original Error"), JsString("HttpError"),
           JsString("HttpError: Original Error"),
           ("status" :> JsNumber(500)) @@ ("detail" :> JsString("down"))),
   JsObject(("code" :> JsNumber(404)) @@ ("message" :> JsString("Not found"))),
   JsObject(("custom" :> JsString("error")) @@ ("code" :> JsNumber(500))),
   JsObject(NoFields),
   JsArray(<<JsNumber(1), JsString("a")>>)}

\* errorExt arguments: not supplied, or an object of context fields
ToContexts ==
  {JsUndefined,
   JsObject(NoFields),
   JsObject("context" :> JsString("test")),
   JsObject(("message" :> JsString("overridden")) @@ ("code" :> JsNumber(1)))}

\* the asynchronous source fulfils the input promise
ToSettleFulfilled(v) ==
  /\ toInput.state = "pending"
  /\ toInput' = [state |-> "fulfilled", value |-> v]
  /\ UNCHANGED <<toExt, toCalled, toThen, toResult, toFrame>>

\* the asynchronous source rejects the input promise
ToSettleRejected(e) ==
  /\ toInput.state = "pending"
  /\ toInput' = [state |-> "rejected", value |-> e]
  /\ UNCHANGED <<toExt, toCalled, toThen, toResult, toFrame>>

\* user code: to(promise, errorExt), lines 108-117
ToCall(errorExt) ==
  /\ ~toCalled
  /\ toCalled' = TRUE
  /\ toExt' = errorExt
  /\ toThen' = PendingPromise
  /\ toResult' = PendingPromise
  /\ UNCHANGED <<toInput, toFrame>>

\* the host runs the reaction .then(..) registered on the input promise
ToThenJob ==
  /\ toCalled
  /\ IsSettled(toInput)
  /\ toThen.state = "pending"
  /\ toThen' = ThenReaction(toInput)
  /\ UNCHANGED <<toInput, toExt, toCalled, toResult, toFrame>>

\* the host runs the reaction .catch(..) registered on the then() promise
ToCatchJob ==
  /\ IsSettled(toThen)
  /\ toResult.state = "pending"
  /\ toResult' = CatchReaction(toThen, toExt)
  /\ UNCHANGED <<toInput, toExt, toCalled, toThen, toFrame>>

NextTo ==
  \/ \E v \in ToFulfilments : ToSettleFulfilled(v)
  \/ \E e \in ToRejections : ToSettleRejected(e)
  \/ \E x \in ToContexts : ToCall(x)
  \/ ToThenJob
  \/ ToCatchJob

SpecTo == Init /\ [][NextTo]_vars

\* ---------------------------------------------------------------- useQueue: steps
QueueElements == 1..MaxElement

\* what a step of useQueue leaves alone
queueFrame == <<promiseVars, toVars, intervalVars, objectVars, scriptVars,
                 debounceVars, requestVars>>

\* the queue as the calls made so far leave it
CurrentQueue == ApplyUpdates(qState, qUpdates)

\* a component calls useQueue(initialValue) in its first render, line 14
QueueMount(initialValue) ==
  /\ ~qMounted
  /\ qMounted' = TRUE
  /\ qState' = initialValue
  /\ UNCHANGED <<qUpdates, qFresh, qLast, queueFrame>>

\* add(element), lines 16-18
QueueAdd(element) ==
  /\ qMounted
  /\ Len(CurrentQueue) < MaxQueueLen
  /\ Len(qUpdates) < MaxUpdates
  /\ qUpdates' = Append(qUpdates, [kind |-> "add", element |-> element])
  /\ qFresh' = FALSE
  /\ qLast' = [op |-> "add", element |-> element, ret |-> QueueUndefined,
               before |-> CurrentQueue]
  /\ UNCHANGED <<qMounted, qState, queueFrame>>

\* remove(), lines 20-28: firstItem is assigned only if the updater runs
\* before remove() returns
QueueRemove(eager) ==
  /\ qMounted
  /\ Len(qUpdates) < MaxUpdates
  /\ eager \in EagerChoices
  /\ qUpdates' = Append(qUpdates, [kind |-> "remove", element |-> 0])
  /\ qFresh' = FALSE
  /\ qLast' = [op |-> "remove", element |-> 0,
               ret |-> IF eager THEN FirstItem(qState) ELSE QueueUndefined,
               before |-> CurrentQueue]
  /\ UNCHANGED <<qMounted, qState, queueFrame>>

\* clear(), lines 30-32
QueueClear ==
  /\ qMounted
  /\ Len(qUpdates) < MaxUpdates
  /\ qUpdates' = Append(qUpdates, ClearUpdate)
  /\ qFresh' = FALSE
  /\ qLast' = [op |-> "clear", element |-> 0, ret |-> QueueUndefined,
               before |-> CurrentQueue]
  /\ UNCHANGED <<qMounted, qState, queueFrame>>

\* React renders the component again: the queued updates become the state
QueueRender ==
  /\ qMounted
  /\ qUpdates # <<>>
  /\ qState' = ApplyUpdates(qState, qUpdates)
  /\ qUpdates' = <<>>
  /\ UNCHANGED <<qMounted, qFresh, qLast, queueFrame>>

NextQueue ==
  \/ \E n \in 0..MaxQueueLen, init \in [1..MaxQueueLen -> QueueElements] :
       QueueMount(SubSeq(init, 1, n))
  \/ \E element \in QueueElements : QueueAdd(element)
  \/ \E eager \in BOOLEAN : QueueRemove(eager)
  \/ QueueClear
  \/ QueueRender

SpecQueue == Init /\ [][NextQueue]_vars

\* ---------------------------------------------------------------- useInterval: steps
IntervalCallbacks == 1..MaxCallbacks
IntervalMs == {MsNull} \cup {Ms(n) : n \in 1..MaxMs}

\* what a step of useInterval leaves alone
intervalFrame == <<promiseVars, toVars, queueVars, objectVars, scriptVars,
                    debounceVars, requestVars>>

CommitInterval(st) ==
  /\ ivCallbackRef' = st.callbackRef
  /\ ivIntervalRef' = st.intervalRef
  /\ ivTimers' = st.timers
  /\ ivLog' = st.log
  /\ ivStarts' = st.starts

\* first render: useRef(null), useRef(callback), lines 10-11; the effects
\* are left to run after the commit
IntervalMount(callback, ms, immediate) ==
  /\ ivRenders = 0
  /\ ivMounted' = TRUE
  /\ ivProps' = [callback |-> callback, ms |-> ms, immediate |-> immediate]
  /\ ivPending' = TRUE
  /\ ivRenders' = 1
  /\ CommitInterval([IntervalState EXCEPT !.callbackRef = callback])
  /\ UNCHANGED <<ivDeps, ivNow, ivCleared, intervalFrame>>

\* a later render with new or old arguments
IntervalRender(callback, ms, immediate) ==
  /\ ivMounted
  /\ ~ivPending
  /\ ivRenders < MaxRenders
  /\ ivProps' = [callback |-> callback, ms |-> ms, immediate |-> immediate]
  /\ ivPending' = TRUE
  /\ ivRenders' = ivRenders + 1
  /\ ivCleared' = IF ms = ivProps.ms /\ immediate = ivProps.immediate
                  THEN ivCleared ELSE "no"
  /\ UNCHANGED <<ivMounted, ivDeps, ivCallbackRef, ivIntervalRef, ivTimers,
                 ivNow, ivLog, ivStarts, intervalFrame>>

\* React runs the effects of the last render, lines 14-39
IntervalEffects ==
  /\ ivPending
  /\ ivPending' = FALSE
  /\ CommitInterval(RunEffects(IntervalState, ivDeps, ivProps))
  /\ ivDeps' = DepsAfter(ivDeps, ivProps)
  /\ UNCHANGED <<ivMounted, ivProps, ivNow, ivRenders, ivCleared,
                 intervalFrame>>

\* user code calls the function useInterval returned, lines 42-47
IntervalClear ==
  /\ ivMounted
  /\ CommitInterval(ClearIntervalRef(IntervalState))
  /\ ivCleared' = IF ivPending /\ TimerDepsChanged(ivDeps, ivProps)
                  THEN "early" ELSE "yes"
  /\ UNCHANGED <<ivMounted, ivProps, ivPending, ivDeps, ivNow, ivRenders,
                 intervalFrame>>

\* the component unmounts: React runs the cleanup of the timer effect
IntervalUnmount ==
  /\ ivMounted
  /\ ~ivPending
  /\ ivMounted' = FALSE
  /\ CommitInterval(IF ivDeps.cleanup THEN ClearIntervalRef(IntervalState)
                    ELSE IntervalState)
  /\ UNCHANGED <<ivProps, ivPending, ivDeps, ivNow, ivRenders, ivCleared,
                 intervalFrame>>

\* the host runs the task of a timer that is due, lines 28-30
IntervalFire(t) ==
  /\ t \in ivTimers
  /\ t.next = ivNow
  /\ CommitInterval(
       [InvokeCallback(IntervalState, "interval", t.id) EXCEPT
          !.timers = (@ \ {t}) \cup {[t EXCEPT !.next = @ + t.period]}])
  /\ UNCHANGED <<ivMounted, ivProps, ivPending, ivDeps, ivNow, ivRenders,
                 ivCleared, intervalFrame>>

\* one unit of time passes; a timer that is due runs before
IntervalAdvance ==
  /\ ivNow < MaxTime
  /\ \A t \in ivTimers : t.next > ivNow
  /\ ivNow' = ivNow + 1
  /\ UNCHANGED <<ivMounted, ivProps, ivPending, ivDeps, ivCallbackRef,
                 ivIntervalRef, ivTimers, ivRenders, ivLog, ivStarts,
                 ivCleared, intervalFrame>>

NextInterval ==
  \/ \E c \in IntervalCallbacks, ms \in IntervalMs, i \in ImmediateValues :
       IntervalMount(c, ms, i)
  \/ \E c \in IntervalCallbacks, ms \in IntervalMs, i \in ImmediateValues :
       IntervalRender(c, ms, i)
  \/ IntervalEffects
  \/ IntervalClear
  \/ IntervalUnmount
  \/ \E t \in ivTimers : IntervalFire(t)
  \/ IntervalAdvance

SpecInterval == Init /\ [][NextInterval]_vars

\* ---------------------------------------------------------------- useObjectState: steps
\* what a step of useObjectState leaves alone
objectFrame == <<promiseVars, toVars, queueVars, intervalVars, scriptVars,
                  debounceVars, requestVars>>

\* initial state of the tests
ObjectInitialState ==
  JsObject(("name" :> JsString("Join")) @@ ("age" :> JsNumber(10)))

\* values the setter is called with
ObjectResults ==
  {JsNull, JsUndefined, JsNumber(42), JsString("age"),
   JsArray(<<JsNumber(1)>>), JsObject(NoFields),
   JsObject("age" :> JsNumber(11)), JsObject("name" :> JsString("Join2"))}

ObjectArgs ==
  ObjectResults \cup {ConstantFunction(r) : r \in ObjectResults}
    \cup {IdentityFunction}

\* the state as the setter calls made so far leave it
CurrentState == RunUpdaters(oState, oUpdates)

\* first render: useState(initialState), line 9
ObjectMount ==
  /\ ~oMounted
  /\ oMounted' = TRUE
  /\ oState' = ObjectInitialState
  /\ UNCHANGED <<oUpdates, oLast, objectFrame>>

\* user code: handlerState(arg), lines 11-30
ObjectSet(arg) ==
  /\ oMounted
  /\ Len(oUpdates) < MaxObjectUpdates
  /\ oUpdates' = oUpdates \o HandlerState(arg)
  /\ oLast' = [called |-> TRUE, arg |-> arg, before |-> CurrentState]
  /\ UNCHANGED <<oMounted, oState, objectFrame>>

\* React renders the component again: the queued updaters run in call order
ObjectRender ==
  /\ oMounted
  /\ oUpdates # <<>>
  /\ oState' = RunUpdaters(oState, oUpdates)
  /\ oUpdates' = <<>>
  /\ UNCHANGED <<oMounted, oLast, objectFrame>>

NextObject ==
  \/ ObjectMount
  \/ \E arg \in ObjectArgs : ObjectSet(arg)
  \/ ObjectRender

SpecObject == Init /\ [][NextObject]_vars

\* ---------------------------------------------------------------- useScript: steps
\* what a step of useScript leaves alone
scriptFrame == <<promiseVars, toVars, queueVars, intervalVars, objectVars,
                  debounceVars, requestVars>>

CommitScript(st) ==
  /\ sComponents' = st.components
  /\ sElements' = st.elements

\* component c renders for the first time: useState('loading'),
\* useRef(options), lines 8-11
ScriptRender(c, removeOnUnmount) ==
  /\ sComponents[c].phase = "unmounted"
  /\ CommitScript([ScriptState EXCEPT
                     !.components[c].phase = "rendered",
                     !.components[c].removeOnUnmount = removeOnUnmount])
  /\ UNCHANGED scriptFrame

\* React runs the effect of component c
ScriptMount(c) ==
  /\ sComponents[c].phase = "rendered"
  /\ CommitScript(ScriptEffect([ScriptState EXCEPT
                                  !.components[c].phase = "mounted"], c))
  /\ UNCHANGED scriptFrame

\* the browser finished loading element e: it fires 'load' or 'error' once
ScriptEvent(e, status) ==
  /\ e \in DOMAIN sElements
  /\ ~sElements[e].fired
  /\ LET st == [ScriptState EXCEPT !.elements[e].fired = TRUE]
     IN CommitScript(IF sElements[e].listener # 0
                     THEN HandleScriptEvent(st, sElements[e].listener, e,
                                            status)
                     ELSE st)
  /\ UNCHANGED scriptFrame

\* component c unmounts: React runs the cleanup its effect returned
ScriptUnmount(c) ==
  /\ sComponents[c].phase = "mounted"
  /\ CommitScript(ScriptCleanup([ScriptState EXCEPT
                                   !.components[c].phase = "gone"], c))
  /\ UNCHANGED scriptFrame

NextScript ==
  \/ \E c \in Consumers, r \in BOOLEAN : ScriptRender(c, r)
  \/ \E c \in Consumers : ScriptMount(c)
  \/ \E e \in DOMAIN sElements, status \in {"ready", "error"} :
       ScriptEvent(e, status)
  \/ \E c \in Consumers : ScriptUnmount(c)

SpecScript == Init /\ [][NextScript]_vars

\* ---------------------------------------------------------------- debounce: steps
DebounceFns == 1..MaxFns
DebounceDelays == 1..MaxDelay
DebounceArgs == 1..MaxArgs

\* what a step of debounce leaves alone
debounceFrame == <<promiseVars, toVars, queueVars, intervalVars, objectVars,
                   scriptVars, requestVars>>

\* debounce(fn, delay), or the first render of a component that calls
\* useDebounce(cb, delay)
DebounceCreate(kind, fn, delay) ==
  /\ dbKind = "none"
  /\ dbKind' = kind
  /\ dbFn' = fn
  /\ dbDelay' = delay
  /\ UNCHANGED <<dbTimer, dbTimers, dbNow, dbCalls, dbLog, debounceFrame>>

\* a later render of the component: useCallback makes a new closure when cb
\* or delay changed, the timer ref stays
DebounceRender(cb, delay) ==
  /\ dbKind = "useDebounce"
  /\ <<cb, delay>> # <<dbFn, dbDelay>>
  /\ dbFn' = cb
  /\ dbDelay' = delay
  /\ UNCHANGED <<dbKind, dbTimer, dbTimers, dbNow, dbCalls, dbLog,
                 debounceFrame>>

\* user code calls the debounced function
DebounceCall(args) ==
  /\ dbKind # "none"
  /\ Len(dbCalls) < MaxDebounceCalls
  /\ LET id == Len(dbCalls) + 1
         st == Debounced(DebounceState, id, args)
     IN /\ dbTimer' = st.timer
        /\ dbTimers' = st.timers
        /\ dbCalls' = Append(dbCalls, [at |-> dbNow, args |-> args,
                                       fn |-> dbFn, delay |-> dbDelay])
  /\ UNCHANGED <<dbKind, dbFn, dbDelay, dbNow, dbLog, debounceFrame>>

\* the host runs the task of a timer that is due: fn.apply(context, args)
DebounceFire(t) ==
  /\ t \in dbTimers
  /\ t.due = dbNow
  /\ dbTimers' = dbTimers \ {t}
  /\ dbLog' = Append(dbLog, [at |-> dbNow, args |-> t.args, fn |-> t.fn,
                             id |-> t.id])
  /\ UNCHANGED <<dbKind, dbFn, dbDelay, dbTimer, dbNow, dbCalls,
                 debounceFrame>>

\* one unit of time passes; a timer that is due runs before
DebounceAdvance ==
  /\ dbNow < MaxDebounceTime
  /\ \A t \in dbTimers : t.due > dbNow
  /\ dbNow' = dbNow + 1
  /\ UNCHANGED <<dbKind, dbFn, dbDelay, dbTimer, dbTimers, dbCalls, dbLog,
                 debounceFrame>>

NextDebounce ==
  \/ \E kind \in {"debounce", "useDebounce"}, fn \in DebounceFns,
        delay \in DebounceDelays : DebounceCreate(kind, fn, delay)
  \/ \E cb \in DebounceFns, delay \in DebounceDelays : DebounceRender(cb, delay)
  \/ \E args \in DebounceArgs : DebounceCall(args)
  \/ \E t \in dbTimers : DebounceFire(t)
  \/ DebounceAdvance

SpecDebounce == Init /\ [][NextDebounce]_vars

\* ---------------------------------------------------------------- createSimpleRequest: steps
\* what a step of createSimpleRequest leaves alone
requestFrame == <<promiseVars, toVars, queueVars, intervalVars, objectVars,
                  scriptVars, debounceVars>>

CommitRequest(st) ==
  /\ rqLatest' = st.latestRequestId
  /\ rqRequests' = st.requests
  /\ rqLog' = st.log

\* user code: request(fn, onSuccess, onError); performance.now() returns the
\* current reading of the clock
RequestCall ==
  /\ Len(rqRequests) < MaxRequests
  /\ CommitRequest(Handler(RequestState, rqNow))
  /\ UNCHANGED <<rqNow, requestFrame>>

\* the promise fn() returned for call r settles and the handler resumes
RequestSettle(r, outcome) ==
  /\ r \in DOMAIN rqRequests
  /\ rqRequests[r].state = "inflight"
  /\ CommitRequest(Continue(RequestState, r, outcome))
  /\ UNCHANGED <<rqNow, requestFrame>>

\* user code: request.destroy()
RequestDestroy ==
  /\ rqRequests # <<>>
  /\ CommitRequest(Destroy(RequestState))
  /\ UNCHANGED <<rqNow, requestFrame>>

\* the reading of performance.now() grows: two calls in between get the
\* same reading
RequestAdvance ==
  /\ rqNow < MaxRequestTime
  /\ rqNow' = rqNow + 1
  /\ UNCHANGED <<rqLatest, rqRequests, rqLog, requestFrame>>

NextRequest ==
  \/ RequestCall
  \/ \E r \in DOMAIN rqRequests, outcome \in {"success", "error"} :
       RequestSettle(r, outcome)
  \/ RequestDestroy
  \/ RequestAdvance

SpecRequest == Init /\ [][NextRequest]_vars

\* ---------------------------------------------------------------- properties
Settled(p) == promises[p].state # "pending"
RunsOf(d) == {i \in 1..Len(log) : log[i].target = d}
TasksOf(d) == {k \in 1..Len(timers) : timers[k].target = d}
IsReg(d) == regs[d].source # 0

\* C1: single settlement. Whatever resolve/reject calls are made on a
\* promise, its state, value and reason are those the first call gave it;
\* a promise nobody called is pending.
C1_SingleSettlement ==
  \A p \in Ids :
    CASE firstCall[p].kind = "resolve" ->
           /\ promises[p].state = "fulfilled"
           /\ promises[p].value = firstCall[p].arg
           /\ promises[p].reason = Undefined
      [] firstCall[p].kind = "reject" ->
           /\ promises[p].state = "rejected"
           /\ promises[p].reason = firstCall[p].arg
           /\ promises[p].value = Undefined
      [] OTHER -> promises[p].state = "pending"

\* a reject call was made, in a later turn, on a promise first resolved
C1_Witness ==
  /\ lastOp.op = "reject"
  /\ firstCall[lastOp.target].kind = "resolve"
  /\ promises[lastOp.target].state = "fulfilled"

C2_Exclusive ==
  \A p \in Ids :
    /\ promises[p].state = "pending" =>
         promises[p].value = Undefined /\ promises[p].reason = Undefined
    /\ promises[p].value # Undefined => promises[p].state = "fulfilled"
    /\ promises[p].reason # Undefined => promises[p].state = "rejected"

C2_Immutable ==
  \A p \in Ids :
    Settled(p) =>
      /\ promises'[p].state = promises[p].state
      /\ promises'[p].value = promises[p].value
      /\ promises'[p].reason = promises[p].reason

\* C2: value is set only on a fulfilled promise, reason only on a rejected
\* one, both are undefined while pending, and a settled promise's state,
\* value and reason never change again.
C2_ValueReasonExclusive == []C2_Exclusive /\ [][C2_Immutable]_vars

\* a resolve call was made, in a later turn, on a promise rejected with 1
C2_Witness ==
  /\ lastOp.op = "resolve"
  /\ promises[lastOp.target].state = "rejected"
  /\ promises[lastOp.target].reason = Num(1)
  /\ promises[lastOp.target].value = Undefined

ExecThrew(p) == execs[p].type = "script" /\ execs[p].threw

\* C3 as stated: an executor that throws, whatever it did before, leaves the
\* promise rejected with the thrown value and the constructor does not throw.
C3_ThrowAlwaysRejects ==
  \A p \in Ids :
    ExecThrew(p) =>
      /\ uncaught = {}
      /\ promises[p].state = "rejected"
      /\ promises[p].reason = execs[p].val

\* C3 amended: the constructor never throws; an executor that throws before
\* any resolve/reject call leaves the promise rejected with the thrown
\* value, and one that throws after such a call leaves the promise as its
\* first call settled it.
C3_ThrowRejectsUnlessSettled ==
  \A p \in Ids :
    ExecThrew(p) =>
      /\ uncaught = {}
      /\ IF execs[p].ops = <<>>
         THEN /\ promises[p].state = "rejected"
              /\ promises[p].reason = execs[p].val
         ELSE IF Head(execs[p].ops).kind = "resolve"
         THEN /\ promises[p].state = "fulfilled"
              /\ promises[p].value = Head(execs[p].ops).arg
         ELSE /\ promises[p].state = "rejected"
              /\ promises[p].reason = Head(execs[p].ops).arg

\* an executor threw 1 without calling anything and the promise is rejected
C3_Witness ==
  \E p \in Ids :
    /\ ExecThrew(p)
    /\ execs[p].ops = <<>>
    /\ execs[p].val = Num(1)
    /\ promises[p].state = "rejected"

\* C4: then() without an onRejected function on a rejected source gives a
\* promise that, once settled, is rejected with the source's reason.
C4_FailurePassThrough ==
  \A d \in Ids :
    ( /\ IsReg(d)
      /\ regs[d].onRejected \in {"undefined", "null"}
      /\ promises[regs[d].source].state = "rejected"
      /\ Settled(d) )
    => /\ promises[d].state = "rejected"
       /\ promises[d].reason = promises[regs[d].source].reason

\* C5: the promise then() returned is settled by the continuation that ran:
\* fulfilled with what it returned, rejected with what it threw.
C5_ContinuationSettles ==
  \A i \in 1..Len(log) :
    IF log[i].threw
    THEN /\ promises[log[i].target].state = "rejected"
         /\ promises[log[i].target].reason = log[i].val
    ELSE /\ promises[log[i].target].state = "fulfilled"
         /\ promises[log[i].target].value = log[i].val

\* f fulfilled with 1, f.then(v => v + 1).then(v => { throw v }) rejected with 2
C5_Witness ==
  \E a \in Ids, b \in Ids :
    /\ regs[a].source = 1 /\ regs[a].onFulfilled = "inc"
    /\ regs[b].source = a /\ regs[b].onFulfilled = "throw"
    /\ promises[1].state = "fulfilled" /\ promises[1].value = Num(1)
    /\ promises[b].state = "rejected" /\ promises[b].reason = Num(2)

\* C6: a continuation runs in a later turn than the then()/catch() call that
\* registered it and than the call that settled its source.
C6_Deferred ==
  \A i \in 1..Len(log) :
    /\ log[i].turn > regs[log[i].target].turn
    /\ settleTurn[regs[log[i].target].source] > 0
    /\ log[i].turn > settleTurn[regs[log[i].target].source]

\* one continuation registered while pending and one registered late have run
C6_Witness ==
  \E i \in 1..Len(log), j \in 1..Len(log) :
    /\ regs[log[i].target].wasPending
    /\ ~regs[log[j].target].wasPending

\* C7: continuations registered on one pending promise run in the order of
\* their registration, and none runs before an earlier registered one has.
C7_CallbackOrder ==
  \A a \in Ids, b \in Ids :
    ( /\ IsReg(a) /\ IsReg(b) /\ a < b
      /\ regs[a].source = regs[b].source
      /\ regs[a].wasPending /\ regs[b].wasPending )
    => \A j \in RunsOf(b) : \E i \in RunsOf(a) : i < j

\* two continuations registered on the pending root ran after its rejection
C7_Witness ==
  \E a \in Ids, b \in Ids :
    /\ a < b /\ regs[a].source = 1 /\ regs[b].source = 1
    /\ regs[a].wasPending /\ regs[b].wasPending
    /\ promises[1].state = "rejected"
    /\ RunsOf(a) # {} /\ RunsOf(b) # {}

\* C8: a continuation registered on a settled promise is either still
\* scheduled or has run, exactly once in total; the handler that runs is the
\* one matching the settled state, gets the stored value or reason, and runs
\* in a later turn than the registering call.
C8_LateRegistration ==
  \A d \in Ids :
    (IsReg(d) /\ ~regs[d].wasPending) =>
      /\ Cardinality(RunsOf(d)) + Cardinality(TasksOf(d)) = 1
      /\ \A i \in RunsOf(d) :
           /\ log[i].turn > regs[d].turn
           /\ IF promises[regs[d].source].state = "fulfilled"
              THEN /\ log[i].fn = "handleFulfilled"
                   /\ log[i].arg = promises[regs[d].source].value
              ELSE /\ log[i].fn = "handleRejected"
                   /\ log[i].arg = promises[regs[d].source].reason

\* a catch() made on an already rejected promise has run its handler
C8_Witness ==
  \E d \in Ids :
    /\ IsReg(d) /\ ~regs[d].wasPending /\ regs[d].via = "catch"
    /\ promises[regs[d].source].state = "rejected"
    /\ RunsOf(d) # {}

\* C9 as stated: once a promise has settled both callback arrays are empty.
C9_QueuesCleared ==
  \A p \in Ids :
    Settled(p) =>
      /\ promises[p].onFulfilledCallbacks = <<>>
      /\ promises[p].onRejectedCallbacks = <<>>

\* every continuation queued on p was handed to the host exactly once, as
\* the handler matching p's state, if p has settled, and not at all before
C9_DrainedOnce ==
  \A p \in Ids :
    \A k \in 1..Len(promises[p].onFulfilledCallbacks) :
      LET d == promises[p].onFulfilledCallbacks[k].target
      IN /\ promises[p].onRejectedCallbacks[k].target = d
         /\ Cardinality(RunsOf(d)) + Cardinality(TasksOf(d))
              = IF Settled(p) THEN 1 ELSE 0
         /\ \A i \in RunsOf(d) :
              log[i].fn = IF promises[p].state = "fulfilled"
                          THEN "handleFulfilled" ELSE "handleRejected"
         /\ \A t \in TasksOf(d) :
              timers[t].fn = IF promises[p].state = "fulfilled"
                             THEN "handleFulfilled" ELSE "handleRejected"

C9_QueuesFrozen ==
  \A p \in Ids :
    Settled(p) =>
      /\ promises'[p].onFulfilledCallbacks = promises[p].onFulfilledCallbacks
      /\ promises'[p].onRejectedCallbacks = promises[p].onRejectedCallbacks

\* C9 amended: the callback arrays are drained once and never cleared: after
\* the promise has settled they keep their entries and never change again,
\* and each queued continuation of the matching kind is invoked exactly
\* once, none of the other kind.
C9_DrainedOnceNotCleared == []C9_DrainedOnce /\ [][C9_QueuesFrozen]_vars

\* a settled promise still holds a queued continuation that has run
C9_Witness ==
  \E p \in Ids :
    /\ Settled(p)
    /\ promises[p].onFulfilledCallbacks # <<>>
    /\ RunsOf(promises[p].onFulfilledCallbacks[1].target) # {}

C10_ThenOnSettled ==
  ( /\ turn' # turn
    /\ lastOp'.op \in {"then", "catch"}
    /\ Settled(lastOp'.target) )
  => promises'[lastOp'.target] = promises[lastOp'.target]

\* C10: then() or catch() on a settled promise adds nothing to its callback
\* arrays and leaves its state, value and reason as they were.
C10_SettledNeverAccumulates == [][C10_ThenOnSettled]_vars

\* then() was just called on a fulfilled promise that catch() was called on before
C10_Witness ==
  /\ lastOp.op = "then"
  /\ promises[lastOp.target].state = "fulfilled"
  /\ \E d \in Ids : regs[d].source = lastOp.target /\ regs[d].via = "catch"
  /\ regs[Len(promises)].source = lastOp.target
  /\ ~regs[Len(promises)].wasPending

\* C11: a continuation that throws affects only the promise then()/catch()
\* returned: nothing escapes to the host, the source keeps the state and
\* the value or reason the continuation was called with, and every other
\* continuation registered on the source is still scheduled or has run once.
C11_ThrowStaysDownstream ==
  /\ uncaught = {}
  /\ \A i \in 1..Len(log) :
       log[i].threw =>
         LET d == log[i].target
             s == regs[d].source
         IN /\ IF log[i].fn = "handleFulfilled"
               THEN /\ promises[s].state = "fulfilled"
                    /\ promises[s].value = log[i].arg
                    /\ promises[s].reason = Undefined
               ELSE /\ promises[s].state = "rejected"
                    /\ promises[s].reason = log[i].arg
                    /\ promises[s].value = Undefined
            /\ \A e \in Ids :
                 (IsReg(e) /\ regs[e].source = s /\ e # d) =>
                   Cardinality(RunsOf(e)) + Cardinality(TasksOf(e)) = 1

\* an onRejected continuation threw and a continuation registered on the
\* same source ran after it
C11_Witness ==
  \E i \in 1..Len(log), j \in 1..Len(log) :
    /\ i < j
    /\ log[i].threw /\ log[i].fn = "handleRejected"
    /\ log[i].target # log[j].target
    /\ regs[log[i].target].source = regs[log[j].target].source

\* ---------------------------------------------------------------- properties of to()
ToRejected == toInput.state = "rejected"
ToDone == toResult.state = "fulfilled"
ErrSlot == toResult.value.elems[1]
DataSlot == toResult.value.elems[2]
NoContext == toExt = JsUndefined

C13_SuccessPair ==
  (toInput.state = "fulfilled" /\ IsSettled(toResult)) =>
    toResult = [state |-> "fulfilled",
                value |-> JsArray(<<JsNull, toInput.value>>)]

\* the input fulfilled with the empty string and the result is settled
C13_Witness ==
  /\ toInput = [state |-> "fulfilled", value |-> JsString("")]
  /\ IsSettled(toResult)

C15_Table(x) ==
  CASE x.t = "string" -> JsObject("message" :> x)
    [] x.t = "number" ->
         JsObject(("code" :> x)
                  @@ ("message" :> JsString("Error " \o ToString(x.n))))
    [] x.t = "boolean" ->
         JsObject(("success" :> x)
                  @@ ("message" :> JsString(IF x.b THEN "Success" ELSE "Failure")))
    [] x.t = "function" ->
         JsObject(("message" :> JsString("Function error"))
                  @@ ("functionName" :> JsString(x.name))
                  @@ ("functionString" :> JsString(x.text)))
    [] x.t = "symbol" ->
         JsObject(("message" :> JsString(("Symbol(" \o x.d) \o ")"))
                  @@ ("originalValue" :> x))

ContextSetsMessage ==
  toExt.t = "object" /\ "message" \in DOMAIN toExt.fields

\* C16: a rejection with undefined, null or '' gives message 'Empty error'
\* (unless errorExt sets message), and 0 and false are not taken as empty.
C16_EmptyRejections ==
  (ToRejected /\ ToDone /\ ~ContextSetsMessage) =>
    /\ toInput.value \in {JsUndefined, JsNull, JsString("")} =>
         ErrSlot.fields["message"] = JsString("Empty error")
    /\ toInput.value = JsNumber(0) =>
         ErrSlot.fields["message"] = JsString("Error 0")
    /\ toInput.value = JsBoolean(FALSE) =>
         ErrSlot.fields["message"] = JsString("Failure")

\* the input rejected with the empty string and the result is fulfilled
C16_Witness == ToRejected /\ ToDone /\ toInput.value = JsString("")

\* C17: without errorExt, a rejection with an Error instance gives exactly
\* its message, name and stack.
C17_ErrorInstances ==
  (ToRejected /\ NoContext /\ ToDone /\ toInput.value.t = "error") =>
    /\ DOMAIN ErrSlot.fields = {"message", "name", "stack"}
    /\ ErrSlot.fields["message"] = toInput.value.message
    /\ ErrSlot.fields["name"] = toInput.value.name
    /\ ErrSlot.fields["stack"] = toInput.value.stack

\* the input rejected with an Error subclass instance carrying own fields
C17_Witness ==
  /\ ToRejected /\ NoContext /\ ToDone
  /\ toInput.value.t = "error"
  /\ DOMAIN toInput.value.own # {}

\* C18: without errorExt, a rejection with a non-Error object keeps every
\* own enumerable field; message is the object's, or 'Object error'.
C18_ObjectRejections ==
  ( /\ ToRejected /\ NoContext /\ ToDone
    /\ toInput.value.t \in {"object", "array"} )
  => LET own == OwnFields(toInput.value)
     IN /\ \A k \in DOMAIN own : /\ k \in DOMAIN ErrSlot.fields
                                 /\ ErrSlot.fields[k] = own[k]
        /\ ErrSlot.fields["message"] =
             IF "message" \in DOMAIN own THEN own["message"]
             ELSE JsString("Object error")

\* the input rejected with { code: 404, message: 'Not found' }
C18_Witness ==
  /\ ToRejected /\ NoContext /\ ToDone
  /\ toInput.value.t = "object"
  /\ "message" \in DOMAIN toInput.value.fields

\* C19: with errorExt the record is the normalized error overlaid with the
\* fields of errorExt, errorExt winning; without it, the normalized error.
C19_ContextExtension ==
  (ToRejected /\ ToDone) =>
    LET norm == StandardizeError(toInput.value)
    IN IF NoContext THEN ErrSlot = norm
       ELSE /\ DOMAIN ErrSlot.fields =
                 DOMAIN norm.fields \cup DOMAIN toExt.fields
            /\ \A k \in DOMAIN toExt.fields :
                 ErrSlot.fields[k] = toExt.fields[k]
            /\ \A k \in DOMAIN norm.fields \ DOMAIN toExt.fields :
                 ErrSlot.fields[k] = norm.fields[k]

\* an Error rejection extended by a context that also sets message
C19_Witness ==
  /\ ToRejected /\ ToDone /\ ContextSetsMessage
  /\ toInput.value.t = "error"
  /\ ErrSlot.fields["message"] = JsString("overridden")

\* C20: as the tests assert, a rejection with a non-empty string and no
\* errorExt gives the string itself in the error slot, undefined as data.
C20_StringPassedThrough ==
  ( /\ ToRejected /\ NoContext /\ ToDone
    /\ toInput.value.t = "string" /\ toInput.value # JsString("") )
  => /\ ErrSlot = toInput.value
     /\ DataSlot = JsUndefined

\* ---------------------------------------------------------------- properties of SimplePromise, continued
\* C26: of the two handlers of one then() registration at most one is ever
\* invoked, at most once, and it is the one matching the first settlement
\* call made on the source.
C26_OneHandlerOnce ==
  \A d \in Ids :
    IsReg(d) =>
      /\ Cardinality(RunsOf(d)) + Cardinality(TasksOf(d)) <= 1
      /\ \A i \in RunsOf(d) :
           log[i].fn = IF firstCall[regs[d].source].kind = "resolve"
                       THEN "handleFulfilled" ELSE "handleRejected"
      /\ \A k \in TasksOf(d) :
           timers[k].fn = IF firstCall[regs[d].source].kind = "resolve"
                          THEN "handleFulfilled" ELSE "handleRejected"

\* a registration made on the pending root ran its onFulfilled handler and
\* two more settlement calls were made on the root
C26_Witness ==
  /\ calls = 2
  /\ firstCall[1].kind = "resolve"
  /\ lastOp.op = "tick"
  /\ \E d \in Ids :
       /\ IsReg(d) /\ regs[d].source = 1 /\ regs[d].wasPending
       /\ \E i \in RunsOf(d) : log[i].fn = "handleFulfilled"

\* the chain of promises under a host that eventually runs every scheduled
\* timer task: executors that settle at most once with one value or throw,
\* handlers that are absent, return or throw
ChainValues == {Undefined}
ChainHandlers == {"undefined", "throw"}
ChainExecs ==
  {e \in ExecScripts :
     /\ e.val \in ChainValues
     /\ \A i \in DOMAIN e.ops : e.ops[i].arg \in ChainValues}

NextChain ==
  \/ \E exec \in ChainExecs : New(exec)
  \/ \E p \in Ids, f \in ChainHandlers, r \in ChainHandlers : ThenCall(p, f, r)
  \/ \E p \in Ids, r \in ChainHandlers : CatchCall(p, r)
  \/ \E p \in Ids, v \in ChainValues :
       calls < MaxChainCalls /\ ResolveCall(p, v)
  \/ \E p \in Ids, v \in ChainValues :
       calls < MaxChainCalls /\ RejectCall(p, v)
  \/ Tick

SpecChain == Init /\ [][NextChain]_vars /\ WF_vars(Tick)

C27_PendingWhileSourcePending ==
  \A d \in Ids :
    (IsReg(d) /\ ~Settled(regs[d].source)) => ~Settled(d)

\* C27: a promise obtained by then()/catch() stays pending while its source
\* is pending and, once the source has settled, eventually settles.
C27_ChainLiveness ==
  /\ []C27_PendingWhileSourcePending
  /\ \A d \in 2..MaxPromises :
       (d \in Ids /\ IsReg(d) /\ Settled(regs[d].source))
         ~> (d \in Ids /\ Settled(d))

\* a promise derived from a derived promise has settled
C27_Witness ==
  \E d \in Ids :
    /\ IsReg(d) /\ regs[d].source # 1
    /\ Settled(d) /\ Settled(regs[d].source)

\* ---------------------------------------------------------------- properties of useQueue
\* C21: every remove() returns the element at the head of the queue it is
\* called on (undefined when that queue is empty) and leaves that queue
\* without its first element; add(x) leaves the queue with x appended.
C21_Fifo ==
  /\ qLast.op = "remove" =>
       /\ qLast.ret = FirstItem(qLast.before)
       /\ CurrentQueue = Slice1(qLast.before)
  /\ qLast.op = "add" =>
       CurrentQueue = Append(qLast.before, qLast.element)

\* ---------------------------------------------------------------- properties of useInterval
EntriesOf(id, by) ==
  {i \in DOMAIN ivLog : ivLog[i].id = id /\ ivLog[i].by = by}

\* every interval a timer effect started has ticked at start + ms,
\* start + 2 ms, .. and at no other time, up to now or to the time it was
\* cleared, and its callback was invoked at start exactly if
\* options.immediate was true
C22_Schedule ==
  /\ \A i \in DOMAIN ivLog : ivLog[i].id \in DOMAIN ivStarts
  /\ \A id \in DOMAIN ivStarts :
       LET st == ivStarts[id]
           until == IF st.end = -1 THEN ivNow ELSE st.end
           ticks == EntriesOf(id, "interval")
           k == Cardinality(ticks)
       IN /\ {ivLog[i].at : i \in ticks} = {st.start + j * st.ms : j \in 1..k}
          /\ Cardinality({ivLog[i].at : i \in ticks}) = k
          /\ st.start + k * st.ms <= until
          /\ st.start + (k + 1) * st.ms >= until
          /\ Cardinality(EntriesOf(id, "immediate")) =
               IF st.immediate THEN 1 ELSE 0
          /\ \A i \in EntriesOf(id, "immediate") :
               /\ ivLog[i].at = st.start
               /\ \A j \in ticks : i < j

\* with ms = null neither the effects nor any later step invoke the callback
C22_NullStep ==
  /\ (ivPending /\ ~ivPending' /\ ivProps.ms = MsNull) => ivLog' = ivLog
  /\ (~ivPending /\ ivDeps.ran /\ ivDeps.ms = MsNull) => ivLog' = ivLog

C23_NeverAfterClear ==
  [][ivCleared # "no" => ivLog' = ivLog]_vars

\* C23: once the returned function has been called after the timer effect
\* for the current ms and options.immediate has run, no step invokes the
\* callback while ms and options.immediate stay as they are.
C23_NeverAfterClearOfStarted ==
  [][ivCleared = "yes" => ivLog' = ivLog]_vars

\* a running interval that had ticked was cleared by the returned function,
\* the component rendered again, and a full period has passed since
C23_Witness ==
  /\ ivCleared = "yes"
  /\ ivMounted /\ ivRenders = 2 /\ ~ivPending
  /\ \E id \in DOMAIN ivStarts :
       /\ EntriesOf(id, "interval") # {}
       /\ ivStarts[id].end # -1
       /\ ivNow >= ivStarts[id].end + ivStarts[id].ms

Invoked == ivLog' # ivLog

\* the effects of a render that changed neither ms nor options.immediate
\* leave the running interval alone
C24_NotRestarted ==
  (ivPending /\ ~ivPending' /\ ~TimerDepsChanged(ivDeps, ivProps)) =>
    /\ ivTimers' = ivTimers
    /\ ivStarts' = ivStarts
    /\ ivIntervalRef' = ivIntervalRef

\* C24 as stated: every invocation is of the callback of the most recent
\* render, and a render with the same ms does not restart the interval.
C24_LatestRendered ==
  [][/\ Invoked => ivLog'[Len(ivLog')].callback = ivProps.callback
     /\ C24_NotRestarted]_vars

\* C24: every invocation is of the callback of the most recent render whose
\* effects have run, and a render with the same ms and options.immediate
\* does not restart the interval.
C24_LatestCommitted ==
  [][/\ Invoked =>
          ivLog'[Len(ivLog')].callback =
            IF ivPending /\ ivPending' THEN ivDeps.callback
            ELSE ivProps.callback
     /\ C24_NotRestarted]_vars

\* one interval ticked with the old callback and, one period later, with the
\* new one
C24_Witness ==
  \E id \in DOMAIN ivStarts :
    \E i \in EntriesOf(id, "interval"), j \in EntriesOf(id, "interval") :
      /\ ivLog[i].callback # ivLog[j].callback
      /\ ivLog[j].at = ivLog[i].at + ivStarts[id].ms
      /\ ~ivPending

\* ---------------------------------------------------------------- properties of useObjectState
\* the plain object a setter argument stands for: the argument itself or
\* what the function returns for the state; none for an invalid update
ValidUpdate(arg, s) ==
  IF arg.t = "function"
  THEN IF IsObjectTag(CallFunction(arg, s)) THEN <<CallFunction(arg, s)>>
       ELSE <<>>
  ELSE IF IsObjectTag(arg) THEN <<arg>> ELSE <<>>

\* C25: an invalid update (null, undefined, a value that is neither a plain
\* object nor a function, a function whose result is not a plain object)
\* leaves the state as it was; a valid one replaces the keys of the update
\* and keeps every other key.
C25_IgnoreOrMerge ==
  oLast.called =>
    LET update == ValidUpdate(oLast.arg, oLast.before)
    IN IF update = <<>> THEN CurrentState = oLast.before
       ELSE /\ CurrentState.t = "object"
            /\ DOMAIN CurrentState.fields =
                 DOMAIN OwnFields(oLast.before) \cup DOMAIN update[1].fields
            /\ \A k \in DOMAIN CurrentState.fields :
                 CurrentState.fields[k] =
                   IF k \in DOMAIN update[1].fields THEN update[1].fields[k]
                   ELSE oLast.before.fields[k]

\* ---------------------------------------------------------------- properties of useScript
InDocument == {e \in DOMAIN sElements : sElements[e].inDocument}

\* C28: the document never holds two script elements for the src, and once
\* the element has fired 'load' (resp. 'error') every mounted component whose
\* effect has run reports 'ready' (resp. 'error').
C28_AllConsumersNotified ==
  /\ Cardinality(InDocument) <= 1
  /\ \A e \in InDocument :
       sElements[e].fired =>
         \A c \in Consumers :
           sComponents[c].phase = "mounted" =>
             sComponents[c].status = sElements[e].dataStatus

\* ---------------------------------------------------------------- properties of debounce
InvocationsOf(i) == {j \in DOMAIN dbLog : dbLog[j].id = i}

\* call i is followed by a call less than its delay later
Superseded(i) ==
  i < Len(dbCalls) /\ dbCalls[i + 1].at < dbCalls[i].at + dbCalls[i].delay

\* call i is the last of its burst and its delay has passed
BurstOver(i) ==
  /\ i = Len(dbCalls) \/ dbCalls[i + 1].at > dbCalls[i].at + dbCalls[i].delay
  /\ dbNow > dbCalls[i].at + dbCalls[i].delay

\* C29: of a burst of calls, each less than delay after the one before, only
\* the last one invokes the wrapped function: once, delay after that call
\* and with its arguments; never is more than one timer pending.
C29_OncePerBurst ==
  /\ Cardinality(dbTimers) <= 1
  /\ \A j \in DOMAIN dbLog :
       /\ dbLog[j].id \in DOMAIN dbCalls
       /\ dbLog[j].args = dbCalls[dbLog[j].id].args
       /\ dbLog[j].fn = dbCalls[dbLog[j].id].fn
       /\ dbLog[j].at = dbCalls[dbLog[j].id].at + dbCalls[dbLog[j].id].delay
  /\ \A i \in DOMAIN dbCalls :
       /\ Cardinality(InvocationsOf(i)) <= 1
       /\ Superseded(i) => InvocationsOf(i) = {}
       /\ BurstOver(i) => Cardinality(InvocationsOf(i)) = 1

\* a burst of two calls was followed by a single call: two invocations,
\* none for the first call of the burst
C29_Witness ==
  /\ Len(dbCalls) = 3
  /\ Superseded(1) /\ BurstOver(2) /\ BurstOver(3)
  /\ dbCalls[1].args # dbCalls[2].args
  /\ Len(dbLog) = 2

\* ---------------------------------------------------------------- properties of createSimpleRequest
\* C30: a callback is invoked only by the handler call that is the most
\* recently started one at that time, and never by a call that was in flight
\* when destroy() was called.
C30_OnlyLatest ==
  \A j \in DOMAIN rqLog :
    /\ rqLog[j].request = rqLog[j].latest
    /\ ~rqRequests[rqLog[j].request].destroyed

====
